---- MODULE Spec2Model ----
(***************************************************************************)
(* Model of package env (github.com/xdrm-io/env):                          *)
(*   Read(key)      - value of an environment variable, falling back to    *)
(*                    the contents of the file named by {key}_FILE         *)
(*   ReadStruct(v)  - fills the fields of a struct from the environment,   *)
(*                    driven by `env:"NAME[,required]"` struct tags        *)
(* Strings are TLA+ strings; Go's strings.* helpers are computed on them   *)
(* character by character with Len, SubSeq and \o.                         *)
(***************************************************************************)
EXTENDS Integers, Sequences, FiniteSets, TLC

VARIABLES
    env,        \* the process environment: partial function name -> value
    fs,         \* the readable regular files: partial function path -> contents
    arg,        \* the value handed to ReadStruct (its reflect.Value shape)
    rt,         \* the struct type behind arg: sequence of field declarations
    obj,        \* the struct value behind arg: sequence of field values
    heap,       \* cells pointer fields point to: partial function address -> value
    op,         \* which call returned last: "none", "Read" or "ReadStruct"
    key,        \* Read: the key of the last call
    raw,        \* Read: the returned string
    found,      \* Read: the returned bool
    err,        \* ReadStruct: the returned error
    at,         \* ReadStruct: the loop index i when it returned
    trace,      \* the environment and file accesses the last call made, in order
    pre_obj,    \* obj as it was when the last ReadStruct call started
    pre_heap    \* heap as it was when the last ReadStruct call started

vars == <<env, fs, arg, rt, obj, heap, op, key, raw, found, err, at, trace,
          pre_obj, pre_heap>>

----------------------------------------------------------------------------
(* Bounds of the model *)

\* longest generated raw string (environment values and file contents)
MaxLen == 2

----------------------------------------------------------------------------
(* Strings: the parts of Go's strings package the code uses *)

Char(s, i) == SubSeq(s, i, i)

\* strings.Index(s, sep) for a one-character sep, 1-based; 0 when absent
RECURSIVE IndexFrom(_, _, _)
IndexFrom(s, sep, i) ==
    IF i > Len(s) THEN 0
    ELSE IF Char(s, i) = sep THEN i
    ELSE IndexFrom(s, sep, i + 1)

\* strings.Split(s, sep) for a one-character sep
RECURSIVE Split(_, _)
Split(s, sep) ==
    LET i == IndexFrom(s, sep, 1) IN
    IF i = 0 THEN <<s>>
    ELSE <<SubSeq(s, 1, i - 1)>> \o Split(SubSeq(s, i + 1, Len(s)), sep)

Upper == "ABCDEFGHIJKLMNOPQRSTUVWXYZ"
Lower == "abcdefghijklmnopqrstuvwxyz"

LowerChar(c) ==
    LET i == IndexFrom(Upper, c, 1) IN
    IF i = 0 THEN c ELSE Char(Lower, i)

\* strings.ToLower(s)
RECURSIVE ToLower(_)
ToLower(s) ==
    IF s = "" THEN ""
    ELSE LowerChar(Char(s, 1)) \o ToLower(SubSeq(s, 2, Len(s)))

IsSpace(c) == c \in {" ", "\t", "\n", "\r"}

\* strings.TrimSpace(s)
RECURSIVE TrimLeft(_)
TrimLeft(s) ==
    IF s # "" /\ IsSpace(Char(s, 1)) THEN TrimLeft(SubSeq(s, 2, Len(s))) ELSE s

RECURSIVE TrimRight(_)
TrimRight(s) ==
    IF s # "" /\ IsSpace(Char(s, Len(s)))
    THEN TrimRight(SubSeq(s, 1, Len(s) - 1)) ELSE s

TrimSpace(s) == TrimRight(TrimLeft(s))

\* fmt's %q for the strings of the model (printable, no quote or backslash)
Quote(s) == "\"" \o s \o "\""

----------------------------------------------------------------------------
(* The operating system, as Read uses it *)

\* os.LookupEnv(name)
LookupEnv(e, name) ==
    IF name \in DOMAIN e THEN [val |-> e[name], ok |-> TRUE]
    ELSE [val |-> "", ok |-> FALSE]

\* os.ReadFile(path): fails on the empty path and on anything that is not a
\* readable regular file
ReadFile(f, path) ==
    IF path # "" /\ path \in DOMAIN f THEN [data |-> f[path], ok |-> TRUE]
    ELSE [data |-> "", ok |-> FALSE]

----------------------------------------------------------------------------
(* Read *)

\* a Read that prefers the file over the direct variable
ReadFileFirst(e, f, k) ==
    LET p == LookupEnv(e, k \o "_FILE")
        c == ReadFile(f, p.val)
        d == LookupEnv(e, k)
    IN  IF p.ok /\ c.ok
        THEN [raw |-> c.data, ok |-> TRUE,
              trace |-> << <<"LookupEnv", k \o "_FILE">>, <<"ReadFile", p.val>> >>]
        ELSE [raw |-> d.val, ok |-> d.ok, trace |-> << <<"LookupEnv", k>> >>]

\* a Read that trims the contents of the file
ReadTrimmed(e, f, k) ==
    LET d == LookupEnv(e, k)
        p == LookupEnv(e, k \o "_FILE")
        c == ReadFile(f, p.val)
    IN  IF d.ok THEN [raw |-> d.val, ok |-> TRUE, trace |-> << <<"LookupEnv", k>> >>]
        ELSE IF ~p.ok
        THEN [raw |-> "", ok |-> FALSE,
              trace |-> << <<"LookupEnv", k>>, <<"LookupEnv", k \o "_FILE">> >>]
        ELSE [raw |-> TrimSpace(c.data), ok |-> c.ok,
              trace |-> << <<"LookupEnv", k>>, <<"LookupEnv", k \o "_FILE">>,
                           <<"ReadFile", p.val>> >>]

\* a Read that takes an empty direct variable for an unset one (os.Getenv)
ReadGetenv(e, f, k) ==
    LET d == LookupEnv(e, k)
        p == LookupEnv(e, k \o "_FILE")
        c == ReadFile(f, p.val)
    IN  IF d.val # ""
        THEN [raw |-> d.val, ok |-> TRUE, trace |-> << <<"LookupEnv", k>> >>]
        ELSE IF ~p.ok
        THEN [raw |-> "", ok |-> FALSE,
              trace |-> << <<"LookupEnv", k>>, <<"LookupEnv", k \o "_FILE">> >>]
        ELSE [raw |-> c.data, ok |-> c.ok,
              trace |-> << <<"LookupEnv", k>>, <<"LookupEnv", k \o "_FILE">>,
                           <<"ReadFile", p.val>> >>]

\* Read(key): [raw, ok] and the accesses made
Read(e, f, k) ==
    LET d == LookupEnv(e, k)
        p == LookupEnv(e, k \o "_FILE")
        c == ReadFile(f, p.val)
    IN  IF d.ok
        THEN [raw |-> d.val, ok |-> TRUE, trace |-> << <<"LookupEnv", k>> >>]
        ELSE IF ~p.ok
        THEN [raw |-> "", ok |-> FALSE,
              trace |-> << <<"LookupEnv", k>>, <<"LookupEnv", k \o "_FILE">> >>]
        ELSE IF ~c.ok
        THEN [raw |-> "", ok |-> FALSE,
              trace |-> << <<"LookupEnv", k>>, <<"LookupEnv", k \o "_FILE">>,
                           <<"ReadFile", p.val>> >>]
        ELSE [raw |-> c.data, ok |-> TRUE,
              trace |-> << <<"LookupEnv", k>>, <<"LookupEnv", k \o "_FILE">>,
                           <<"ReadFile", p.val>> >>]

----------------------------------------------------------------------------
(* Errors: an error is its message and the set of errors errors.Is finds in
   its chain (an Err is compared by value, i.e. by its message) *)

NilErr == [nil |-> TRUE, msg |-> "", is |-> {}]

\* a leaf error: Err(msg), or an error made by fmt.Errorf without %w
Err(msg) == [nil |-> FALSE, msg |-> msg, is |-> {msg}]

ErrNotPtr           == Err("not a pointer")
ErrNotStructPtr     == Err("not a pointer to struct")
ErrFieldUnexported  == Err("field is unexported")
ErrFieldNoEnvTag    == Err("no env tag")
ErrFieldDecode      == Err("field decode")
ErrFieldUnsupported == Err("unsupported field type")
ErrFieldRequired    == Err("field is required")

\* errors.Is(e, target)
Is(e, target) == ~e.nil /\ target.msg \in e.is

\* fmt.Errorf with the given message, wrapping (%w) the errors of ws
Wrap(msg, ws) == [nil |-> FALSE, msg |-> msg, is |-> UNION {w.is : w \in ws}]

----------------------------------------------------------------------------
(* Types (reflect.Type) and values *)

TString   == [Kind |-> "string",    Str |-> "string"]
TLevel    == [Kind |-> "int",       Str |-> "slog.Level"]
TAny      == [Kind |-> "interface", Str |-> "interface {}"]
TUint8    == [Kind |-> "uint8",     Str |-> "uint8"]
SliceOf(t) == [Kind |-> "slice", Str |-> "[]" \o t.Str, Elem |-> t]
PtrTo(t)   == [Kind |-> "ptr",   Str |-> "*" \o t.Str,  Elem |-> t]
\* a defined type whose underlying type is t (type name t)
Named(name, t) == [t EXCEPT !.Str = name]

\* slog.Level values
LevelDebug == -4
LevelInfo  == 0
LevelWarn  == 4
LevelError == 8

NilAny       == [k |-> "nil"]
StrV(s)      == [k |-> "string", s |-> s]
LevelV(n)    == [k |-> "slog.Level", n |-> n]
SliceV(es)   == [k |-> "slice", nil |-> FALSE, e |-> es]
NilSlice     == [k |-> "slice", nil |-> TRUE, e |-> <<>>]
PtrV(a)      == [k |-> "ptr", a |-> a]
NilPtr       == PtrV(0)

\* the zero value of a type (reflect.New, reflect.MakeSlice)
Zero(t) ==
    CASE t.Kind = "string" -> StrV("")
      [] t.Kind = "int"    -> LevelV(0)
      [] t.Kind = "slice"  -> NilSlice
      [] t.Kind = "ptr"    -> NilPtr
      [] OTHER             -> NilAny

----------------------------------------------------------------------------
(* The decoder table *)

\* the keys of decoders
DecoderNames ==
    {"string", "[]uint8", "[]string", "int", "int8", "int16", "int32", "int64",
     "uint", "uint8", "uint16", "uint32", "uint64", "float32", "float64",
     "bool", "time.Time", "time.Duration", "slog.Level"}

\* the bytes of a string
RECURSIVE Bytes(_)
Bytes(s) == IF s = "" THEN <<>> ELSE <<Char(s, 1)>> \o Bytes(SubSeq(s, 2, Len(s)))

\* decoders["slog.Level"]
DecodeLevel(r) ==
    LET w == TrimSpace(ToLower(r)) IN
    CASE w = "debug" -> [val |-> LevelV(LevelDebug), err |-> NilErr]
      [] w = "warn"  -> [val |-> LevelV(LevelWarn),  err |-> NilErr]
      [] w = "error" -> [val |-> LevelV(LevelError), err |-> NilErr]
      [] w = "info"  -> [val |-> LevelV(LevelInfo),  err |-> NilErr]
      [] OTHER       -> [val |-> LevelV(LevelInfo),
                         err |-> Err("invalid slog.Level: " \o Quote(r))]

\* decoders["[]string"]
DecodeStrings(r) == [val |-> SliceV(Split(r, ",")), err |-> NilErr]

\* decoders[name](r), for the decoders whose code is in this package
Decode(name, r) ==
    CASE name = "string"     -> [val |-> StrV(r), err |-> NilErr]
      [] name = "[]uint8"    -> [val |-> SliceV(Bytes(r)), err |-> NilErr]
      [] name = "[]string"   -> DecodeStrings(r)
      [] name = "slog.Level" -> DecodeLevel(r)

----------------------------------------------------------------------------
(* Struct fields (reflect.StructField): Name, Tag (the value of the env key
   of the struct tag, "" when there is none) and Type *)

Field(name, tag, type) == [Name |-> name, Tag |-> tag, Type |-> type]

\* reflect.Value.CanSet of a field of an addressable struct: the field is
\* exported, i.e. its name starts with an upper-case letter
CanSet(field) == IndexFrom(Upper, Char(field.Name, 1), 1) # 0

\* fmt.Errorf("field %q: %w", field.Name, e)
FieldErr(field, e) == Wrap("field " \o Quote(field.Name) \o ": " \o e.msg, {e})

\* a key that is the name of the field type itself unless it is a pointer
TypeNameOfType(t) == IF t.Kind = "ptr" THEN t.Elem.Str ELSE t.Str

\* the key of the decoder of a field type
TypeName(t) ==
    LET n1 == IF t.Kind = "ptr" THEN t.Elem.Str ELSE t.Str
    IN  IF t.Kind = "slice" THEN "[]" \o t.Elem.Str ELSE n1

\* a required flag raised by a "required" segment at any place after the name
IsRequiredAnywhere(parts) ==
    \E x \in 2..Len(parts) : parts[x] = "required"

\* the required flag of the parts of a tag
IsRequired(parts) == Len(parts) > 1 /\ parts[2] = "required"

\* a decodeField that drops the decoder's error and keeps its value
decodeFieldKeepFallback(field, e, f) ==
    LET tag      == field.Tag
        parts    == Split(tag, ",")
        envName  == parts[1]
        required == IsRequired(parts)
        r        == Read(e, f, envName)
        typeName == TypeName(field.Type)
        d        == Decode(typeName, r.raw)
    IN  IF tag = ""
        THEN [decoded |-> NilAny, err |-> ErrFieldNoEnvTag, trace |-> <<>>]
        ELSE IF ~r.ok
        THEN IF required
             THEN [decoded |-> NilAny,
                   err |-> Wrap(ErrFieldRequired.msg \o " (" \o envName \o ")",
                                {ErrFieldRequired}),
                   trace |-> r.trace]
             ELSE [decoded |-> NilAny, err |-> NilErr, trace |-> r.trace]
        ELSE IF typeName \notin DecoderNames
        THEN [decoded |-> NilAny,
              err |-> Wrap(ErrFieldUnsupported.msg \o ": " \o Quote(typeName),
                           {ErrFieldUnsupported}),
              trace |-> r.trace]
        ELSE [decoded |-> d.val, err |-> NilErr, trace |-> r.trace]

\* a decodeField that looks for the decoder before it reads the variable
decodeFieldTypeFirst(field, e, f) ==
    LET tag      == field.Tag
        parts    == Split(tag, ",")
        envName  == parts[1]
        required == IsRequired(parts)
        r        == Read(e, f, envName)
        typeName == TypeName(field.Type)
        d        == Decode(typeName, r.raw)
    IN  IF tag = ""
        THEN [decoded |-> NilAny, err |-> ErrFieldNoEnvTag, trace |-> <<>>]
        ELSE IF typeName \notin DecoderNames
        THEN [decoded |-> NilAny,
              err |-> Wrap(ErrFieldUnsupported.msg \o ": " \o Quote(typeName),
                           {ErrFieldUnsupported}),
              trace |-> <<>>]
        ELSE IF ~r.ok
        THEN IF required
             THEN [decoded |-> NilAny,
                   err |-> Wrap(ErrFieldRequired.msg \o " (" \o envName \o ")",
                                {ErrFieldRequired}),
                   trace |-> r.trace]
             ELSE [decoded |-> NilAny, err |-> NilErr, trace |-> r.trace]
        ELSE IF ~d.err.nil
        THEN [decoded |-> NilAny,
              err |-> Wrap(ErrFieldDecode.msg \o ": " \o d.err.msg,
                           {ErrFieldDecode, d.err}),
              trace |-> r.trace]
        ELSE [decoded |-> d.val, err |-> NilErr, trace |-> r.trace]

\* decodeField(field): [decoded, err] and the accesses made
decodeField(field, e, f) ==
    LET tag      == field.Tag
        parts    == Split(tag, ",")
        envName  == parts[1]
        required == IsRequired(parts)
        r        == Read(e, f, envName)
        typeName == TypeName(field.Type)
        d        == Decode(typeName, r.raw)
    IN  IF tag = ""
        THEN [decoded |-> NilAny, err |-> ErrFieldNoEnvTag, trace |-> <<>>]
        ELSE IF ~r.ok
        THEN IF required
             THEN [decoded |-> NilAny,
                   err |-> Wrap(ErrFieldRequired.msg \o " (" \o envName \o ")",
                                {ErrFieldRequired}),
                   trace |-> r.trace]
             ELSE [decoded |-> NilAny, err |-> NilErr, trace |-> r.trace]
        ELSE IF typeName \notin DecoderNames
        THEN [decoded |-> NilAny,
              err |-> Wrap(ErrFieldUnsupported.msg \o ": " \o Quote(typeName),
                           {ErrFieldUnsupported}),
              trace |-> r.trace]
        ELSE IF ~d.err.nil
        THEN [decoded |-> NilAny,
              err |-> Wrap(ErrFieldDecode.msg \o ": " \o d.err.msg,
                           {ErrFieldDecode, d.err}),
              trace |-> r.trace]
        ELSE [decoded |-> d.val, err |-> NilErr, trace |-> r.trace]

\* the address reflect.New returns: one no cell has yet
NewAddr(h) == IF DOMAIN h = {} THEN 1
              ELSE 1 + CHOOSE a \in DOMAIN h : \A b \in DOMAIN h : b <= a

\* an Assign that writes the elements into the slice the field holds when
\* that slice is long enough
AssignInPlace(field, fv, decoded, h) ==
    CASE field.Type.Kind = "slice" ->
           IF decoded.k # "slice"
           THEN [fv |-> fv, heap |-> h,
                 err |-> Wrap("field " \o Quote(field.Name) \o ": "
                                \o ErrFieldDecode.msg \o ": cannot convert to slice",
                              {ErrFieldDecode})]
           ELSE IF Len(fv.e) >= Len(decoded.e)
           THEN [fv |-> SliceV([i \in 1..Len(fv.e) |->
                                   IF i <= Len(decoded.e) THEN decoded.e[i]
                                   ELSE fv.e[i]]),
                 heap |-> h, err |-> NilErr]
           ELSE [fv |-> SliceV([i \in 1..Len(decoded.e) |-> decoded.e[i]]),
                 heap |-> h, err |-> NilErr]
      [] field.Type.Kind = "ptr" ->
           LET a == IF fv.a = 0 THEN NewAddr(h) ELSE fv.a
           IN  [fv |-> PtrV(a),
                heap |-> [x \in DOMAIN h \cup {a} |-> IF x = a THEN decoded ELSE h[x]],
                err |-> NilErr]
      [] OTHER ->
           [fv |-> decoded, heap |-> h, err |-> NilErr]

\* an Assign that always allocates a new cell for a pointer field
AssignAlwaysNew(field, fv, decoded, h) ==
    CASE field.Type.Kind = "slice" ->
           IF decoded.k # "slice"
           THEN [fv |-> fv, heap |-> h,
                 err |-> Wrap("field " \o Quote(field.Name) \o ": "
                                \o ErrFieldDecode.msg \o ": cannot convert to slice",
                              {ErrFieldDecode})]
           ELSE [fv |-> SliceV([i \in 1..Len(decoded.e) |-> decoded.e[i]]),
                 heap |-> h, err |-> NilErr]
      [] field.Type.Kind = "ptr" ->
           LET a == NewAddr(h)
           IN  [fv |-> PtrV(a),
                heap |-> [x \in DOMAIN h \cup {a} |-> IF x = a THEN decoded ELSE h[x]],
                err |-> NilErr]
      [] OTHER ->
           [fv |-> decoded, heap |-> h, err |-> NilErr]

\* the switch of ReadStruct: the decoded value written into the field;
\* [fv, heap, err]
Assign(field, fv, decoded, h) ==
    CASE field.Type.Kind = "slice" ->
           IF decoded.k # "slice"
           THEN [fv |-> fv, heap |-> h,
                 err |-> Wrap("field " \o Quote(field.Name) \o ": "
                                \o ErrFieldDecode.msg \o ": cannot convert to slice",
                              {ErrFieldDecode})]
           ELSE [fv |-> SliceV([i \in 1..Len(decoded.e) |-> decoded.e[i]]),
                 heap |-> h, err |-> NilErr]
      [] field.Type.Kind = "ptr" ->
           LET a == IF fv.a = 0 THEN NewAddr(h) ELSE fv.a
           IN  [fv |-> PtrV(a),
                heap |-> [x \in DOMAIN h \cup {a} |-> IF x = a THEN decoded ELSE h[x]],
                err |-> NilErr]
      [] OTHER ->
           [fv |-> decoded, heap |-> h, err |-> NilErr]

\* a loop body that assigns the zero value when the variable has no value
FieldStepZeroAbsent(field, fv, e, f, h) ==
    LET d == decodeField(field, e, f)
        a == Assign(field, fv, d.decoded, h)
    IN  IF ~CanSet(field)
        THEN [err |-> FieldErr(field, ErrFieldUnexported),
              fv |-> fv, heap |-> h, trace |-> <<>>]
        ELSE IF Is(d.err, ErrFieldNoEnvTag)
        THEN [err |-> NilErr, fv |-> fv, heap |-> h, trace |-> d.trace]
        ELSE IF ~d.err.nil
        THEN [err |-> FieldErr(field, d.err),
              fv |-> fv, heap |-> h, trace |-> d.trace]
        ELSE IF d.decoded = NilAny
        THEN [err |-> NilErr, fv |-> Zero(field.Type), heap |-> h,
              trace |-> d.trace]
        ELSE [err |-> a.err, fv |-> IF a.err.nil THEN a.fv ELSE fv,
              heap |-> IF a.err.nil THEN a.heap ELSE h, trace |-> d.trace]

\* a loop body that decodes the field before it checks that it can be set
FieldStepTagFirst(field, fv, e, f, h) ==
    LET d == decodeField(field, e, f)
        a == Assign(field, fv, d.decoded, h)
    IN  IF Is(d.err, ErrFieldNoEnvTag)
        THEN [err |-> NilErr, fv |-> fv, heap |-> h, trace |-> d.trace]
        ELSE IF ~CanSet(field)
        THEN [err |-> FieldErr(field, ErrFieldUnexported),
              fv |-> fv, heap |-> h, trace |-> d.trace]
        ELSE IF ~d.err.nil
        THEN [err |-> FieldErr(field, d.err),
              fv |-> fv, heap |-> h, trace |-> d.trace]
        ELSE IF d.decoded = NilAny
        THEN [err |-> NilErr, fv |-> fv, heap |-> h, trace |-> d.trace]
        ELSE [err |-> a.err, fv |-> IF a.err.nil THEN a.fv ELSE fv,
              heap |-> IF a.err.nil THEN a.heap ELSE h, trace |-> d.trace]

\* the body of the loop of ReadStruct for one field holding fv: the error it
\* returns with (NilErr to go on), the field and the cells after it, and the
\* accesses made
FieldStep(field, fv, e, f, h) ==
    LET d == decodeField(field, e, f)
        a == Assign(field, fv, d.decoded, h)
    IN  IF ~CanSet(field)
        THEN [err |-> FieldErr(field, ErrFieldUnexported),
              fv |-> fv, heap |-> h, trace |-> <<>>]
        ELSE IF Is(d.err, ErrFieldNoEnvTag)
        THEN [err |-> NilErr, fv |-> fv, heap |-> h, trace |-> d.trace]
        ELSE IF ~d.err.nil
        THEN [err |-> FieldErr(field, d.err),
              fv |-> fv, heap |-> h, trace |-> d.trace]
        ELSE IF d.decoded = NilAny
        THEN [err |-> NilErr, fv |-> fv, heap |-> h, trace |-> d.trace]
        ELSE [err |-> a.err, fv |-> IF a.err.nil THEN a.fv ELSE fv,
              heap |-> IF a.err.nil THEN a.heap ELSE h, trace |-> d.trace]

\* a loop that goes on after a failing field and returns the first error
RECURSIVE FieldsContinue(_, _, _, _, _, _, _)
FieldsContinue(t, e, f, i, o, h, tr) ==
    IF i > Len(t)
    THEN [err |-> NilErr, obj |-> o, heap |-> h, trace |-> tr, at |-> i]
    ELSE
      LET Rest(s) == FieldsContinue(t, e, f, i + 1, [o EXCEPT ![i] = s.fv],
                                    s.heap, tr \o s.trace)
          After(s, rest) ==
              IF ~s.err.nil
              THEN [err |-> s.err, obj |-> rest.obj, heap |-> rest.heap,
                    trace |-> rest.trace, at |-> i]
              ELSE rest
      IN  CHOOSE r \in {After(s, rest) :
                           <<s, rest>> \in {<<x, Rest(x)>> :
                               x \in {FieldStep(t[i], o[i], e, f, h)}}} : TRUE

\* the loop of ReadStruct from field i on (the result s of the loop body is
\* bound as the element of a set, which computes it once)
RECURSIVE Fields(_, _, _, _, _, _, _)
Fields(t, e, f, i, o, h, tr) ==
    IF i > Len(t)
    THEN [err |-> NilErr, obj |-> o, heap |-> h, trace |-> tr, at |-> i]
    ELSE
      LET After(s) ==
              IF ~s.err.nil
              THEN [err |-> s.err, obj |-> o, heap |-> h,
                    trace |-> tr \o s.trace, at |-> i]
              ELSE Fields(t, e, f, i + 1, [o EXCEPT ![i] = s.fv], s.heap,
                          tr \o s.trace)
      IN  CHOOSE r \in {After(s) : s \in {FieldStep(t[i], o[i], e, f, h)}} : TRUE

\* a ReadStruct that does not check the pointer for nil
ReadStructNoNilCheck(a, t, e, f, o, h) ==
    IF a.Kind # "ptr"
    THEN [err |-> ErrNotPtr, obj |-> o, heap |-> h, trace |-> <<>>, at |-> 0]
    ELSE IF a.IsNil \/ a.Elem # "struct"
    THEN [err |-> ErrNotStructPtr, obj |-> o, heap |-> h, trace |-> <<>>, at |-> 0]
    ELSE Fields(t, e, f, 1, o, h, <<>>)

\* ReadStruct(v): v is a with struct type t and value o behind it
ReadStruct(a, t, e, f, o, h) ==
    IF a.Kind # "ptr" \/ a.IsNil
    THEN [err |-> ErrNotPtr, obj |-> o, heap |-> h, trace |-> <<>>, at |-> 0]
    ELSE IF a.Elem # "struct"
    THEN [err |-> ErrNotStructPtr, obj |-> o, heap |-> h, trace |-> <<>>, at |-> 0]
    ELSE Fields(t, e, f, 1, o, h, <<>>)

----------------------------------------------------------------------------
(* The inputs the model draws from *)

\* the raw strings: every string of at most MaxLen characters of Chars, and
\* spellings of log levels
Chars == {"a", ","}

RECURSIVE Strings(_)
Strings(n) ==
    IF n = 0 THEN {""}
    ELSE LET S == Strings(n - 1) IN S \cup {s \o c : s \in S, c \in Chars}

LevelRaw == {" Warn", "debug", "ERROR ", "info", " X "}

Raw == Strings(MaxLen) \cup LevelRaw

\* the raw strings drawn for structs of several fields
RawShort == Strings(MaxLen - 1) \cup {" Warn"}

\* marks a variable that is not set when an environment is drawn
Unset == "<unset>"

\* the path a _FILE variable may hold; the file may or may not exist
Paths == {"", "/s"}

\* the environment in which each name n has the direct value dir[n] and the
\* _FILE value fil[n]
EnvOf(names, dir, fil) ==
    LET D == {n \in names : dir[n] # Unset}
        F == {n \in names : fil[n] # Unset}
    IN  [k \in D \cup {n \o "_FILE" : n \in F} |->
            IF k \in D THEN dir[k] ELSE fil[SubSeq(k, 1, Len(k) - 5)]]

\* every environment over names with values of R
Envs(names, R) ==
    {EnvOf(names, dir, fil) : dir \in [names -> R \cup {Unset}],
                              fil \in [names -> Paths \cup {Unset}]}

\* the environments over names in which each name has at most one source
EnvsOneSource(names, R) ==
    {EnvOf(names, dir, fil) :
        <<dir, fil>> \in
            {df \in [names -> R \cup {Unset}] \X [names -> Paths \cup {Unset}] :
                \A n \in names : df[1][n] = Unset \/ df[2][n] = Unset}}

\* the file systems: /s is missing, or holds a string of R
Files(R) == {<<>>} \cup {[p \in {"/s"} |-> c] : c \in R}

VarNames == <<"A", "B", "C">>

\* the values passed to ReadStruct
ArgNil       == [Kind |-> "invalid", IsNil |-> FALSE, Elem |-> "invalid"]
ArgStruct    == [Kind |-> "struct",  IsNil |-> FALSE, Elem |-> "invalid"]
ArgNilPtr    == [Kind |-> "ptr",     IsNil |-> TRUE,  Elem |-> "struct"]
ArgPtrSlice  == [Kind |-> "ptr",     IsNil |-> FALSE, Elem |-> "slice"]
ArgPtrStruct == [Kind |-> "ptr",     IsNil |-> FALSE, Elem |-> "struct"]

FieldTypes ==
    {TString, TLevel, SliceOf(TString), PtrTo(TString), PtrTo(TLevel), SliceOf(TAny)}

\* further field types: without decoder (any, *any, []*string), and with a
\* decoder found under the element's name ([]byte, *[]string, type Tags []string)
MoreTypes ==
    {TAny, PtrTo(TAny), SliceOf(PtrTo(TString)), SliceOf(TUint8),
     PtrTo(SliceOf(TString)), Named("env_test.Tags", SliceOf(TString))}

\* tags that are neither NAME nor NAME,required
OddTags(v) ==
    {v \o ",Required", v \o ", required", v \o ",required ", v \o ",",
     v \o ",x,required", v \o ",required,x", ",required"}

\* the declarations of a field at position p, bound to the p-th variable
Decls(p) ==
    {Field(n \o VarNames[p], tag, ty) :
        n \in {"Field", "field"},
        tag \in {"", VarNames[p], VarNames[p] \o ",required"},
        ty \in FieldTypes}
    \cup
    {Field("Field" \o VarNames[p], tag, ty) :
        tag \in {VarNames[p], VarNames[p] \o ",required"},
        ty \in MoreTypes}
    \cup
    {Field("Field" \o VarNames[p], tag, ty) :
        tag \in OddTags(VarNames[p]),
        ty \in {TString, PtrTo(TString)}}

\* the declarations the structs of several fields are made of
SomeDecls(p) ==
    {Field("Field" \o VarNames[p], VarNames[p] \o ",required", TString),
     Field("Field" \o VarNames[p], VarNames[p], TString),
     Field("Field" \o VarNames[p], "", TString),
     Field("Field" \o VarNames[p], VarNames[p], TLevel),
     Field("Field" \o VarNames[p], VarNames[p], SliceOf(TString)),
     Field("Field" \o VarNames[p], VarNames[p], PtrTo(TString)),
     Field("field" \o VarNames[p], VarNames[p], TString)}

StructTypes1 == {<<d>> : d \in Decls(1)}
StructTypes2 == {<<d1, d2>> : d1 \in SomeDecls(1), d2 \in SomeDecls(2)}
StructTypes3 ==
    {<<Field("FieldA", "A", SliceOf(TString)),
       Field("FieldB", "B,required", TLevel),
       Field("FieldC", "C", PtrTo(TString))>>,
     <<Field("FieldA", "A", PtrTo(TLevel)),
       Field("FieldB", "B", SliceOf(TAny)),
       Field("FieldC", "C,required", SliceOf(TString))>>,
     <<Field("FieldA", "A,required", TString),
       Field("fieldB", "", TLevel),
       Field("FieldC", "C", TString)>>,
     <<Field("FieldA", "", TString),
       Field("FieldB", "B", TString),
       Field("fieldC", "C", TString)>>}

\* a value a field of type t may hold before the call that is not its zero
\* value; a pointer field at position p points to cell p
Populated(t, p) ==
    CASE t.Kind = "string" -> StrV("old")
      [] t.Kind = "int"    -> LevelV(LevelDebug)
      [] t.Kind = "interface" -> StrV("old")
      [] t.Kind = "slice"  -> SliceV(<<"o1", "o2", "o3", "o4", "o5", "o6">>)
      [] t.Kind = "ptr"    -> PtrV(p)

\* the struct values of type t: every field zero or populated
Objs(t) ==
    {o \in [1..Len(t) -> {Zero(t[p].Type) : p \in 1..Len(t)}
                          \cup {Populated(t[p].Type, p) : p \in 1..Len(t)}] :
        \A p \in 1..Len(t) : o[p] \in {Zero(t[p].Type), Populated(t[p].Type, p)}}

\* the struct value of type t with every field populated
ObjPopulated(t) == [p \in 1..Len(t) |-> Populated(t[p].Type, p)]

\* the cells the pointer fields of o point to
HeapOf(t, o) ==
    [a \in {p \in 1..Len(t) : o[p].k = "ptr" /\ o[p].a # 0} |->
        Populated(t[a].Type.Elem, a)]

NamesOf(t) == {VarNames[p] : p \in 1..Len(t)}

----------------------------------------------------------------------------
(* The state machine *)

Start(a, t, o, e, f) ==
    /\ arg = a /\ rt = t /\ obj = o /\ heap = HeapOf(t, o)
    /\ env = e /\ fs = f
    /\ op = "none" /\ key = "" /\ raw = "" /\ found = FALSE
    /\ err = NilErr /\ at = 0 /\ trace = <<>>
    /\ pre_obj = o /\ pre_heap = HeapOf(t, o)

\* a struct and an environment for its variables
Init ==
    \/ \E t \in StructTypes1, f \in Files(Raw) :
        \E o \in Objs(t), e \in EnvsOneSource(NamesOf(t), Raw) :
            Start(ArgPtrStruct, t, o, e, f)
    \/ \E t \in StructTypes2, f \in Files(RawShort) :
        \E o \in Objs(t), e \in EnvsOneSource(NamesOf(t), RawShort) :
            Start(ArgPtrStruct, t, o, e, f)
    \/ \E t \in StructTypes3, f \in Files(RawShort) :
        \E e \in EnvsOneSource(NamesOf(t), RawShort) :
            Start(ArgPtrStruct, t, ObjPopulated(t), e, f)
    \/ \E a \in {ArgNil, ArgStruct, ArgNilPtr, ArgPtrSlice}, f \in Files(RawShort) :
        \E t \in IF a \in {ArgNil, ArgPtrSlice} THEN {<<>>} ELSE StructTypes3 :
            \E e \in EnvsOneSource({"A"}, RawShort) :
                Start(a, t, ObjPopulated(t), e, f)

\* err := ReadStruct(v)
CallReadStruct ==
    \E r \in {ReadStruct(arg, rt, env, fs, obj, heap)} :
    /\ op' = "ReadStruct"
    /\ err' = r.err /\ at' = r.at /\ trace' = r.trace
    /\ obj' = r.obj /\ heap' = r.heap
    /\ pre_obj' = obj /\ pre_heap' = heap
    /\ UNCHANGED <<env, fs, arg, rt, key, raw, found>>

Next == CallReadStruct

Spec == Init /\ [][Next]_vars

\* one key, every environment and file system for it
InitRead ==
    \E e \in Envs({"A"}, Raw), f \in Files(Raw) : Start(ArgNil, <<>>, <<>>, e, f)

\* raw, found := Read(k)
CallRead(k) ==
    \E r \in {Read(env, fs, k)} :
    /\ op' = "Read" /\ key' = k
    /\ raw' = r.raw /\ found' = r.ok /\ trace' = r.trace
    /\ UNCHANGED <<env, fs, arg, rt, obj, heap, err, at, pre_obj, pre_heap>>

NextRead == \E k \in {"A", "A_FILE"} : CallRead(k)

SpecRead == InitRead /\ [][NextRead]_vars

----------------------------------------------------------------------------
(* What the claims speak of, stated on the state alone *)

Names == {VarNames[p] : p \in 1..Len(VarNames)}

\* the variable n has a value: it is set, or n_FILE names a readable file
HasValue(n) ==
    \/ n \in DOMAIN env
    \/ /\ (n \o "_FILE") \in DOMAIN env
       /\ env[n \o "_FILE"] # ""
       /\ env[n \o "_FILE"] \in DOMAIN fs

\* the value of a variable that has one
ValueOf(n) == IF n \in DOMAIN env THEN env[n] ELSE fs[env[n \o "_FILE"]]

Returned   == op = "ReadStruct" /\ arg = ArgPtrStruct
Exported(i) == Char(rt[i].Name, 1) = "F"
Optional(i, n) == rt[i].Tag = n
Required(i, n) == rt[i].Tag = n \o ",required"
Bound(i, n)    == Optional(i, n) \/ Required(i, n)

\* field i was reached by the loop / was processed without error
Reached(i) == at >= i
Passed(i)  == at > i
FailedAt(i) == at = i /\ ~err.nil

\* what a field holds: for a pointer field, the cell it points to
View(v, h) == IF v.k = "ptr" THEN (IF v.a = 0 THEN NilAny ELSE h[v.a]) ELSE v

StartsWith(s, prefix) == SubSeq(s, 1, Len(prefix)) = prefix

\* the accesses of the last call that concern the variable n
Touches(n) ==
    {x \in 1..Len(trace) :
        trace[x][1] = "LookupEnv" /\ trace[x][2] \in {n, n \o "_FILE"}}

----------------------------------------------------------------------------
(* Claims about Read, checked under SpecRead *)

\* C1: whenever the variable K is set (to any string, the empty string
\* included), Read(K) returns exactly that value with found = true, whatever
\* K_FILE holds and whether or not its file is readable; no file is read.
C1_DirectPrecedence ==
    (op = "Read" /\ key \in DOMAIN env) =>
        /\ found
        /\ raw = env[key]
        /\ \A x \in 1..Len(trace) : trace[x][1] # "ReadFile"

\* the direct variable is empty while K_FILE names a readable, non-empty file
C1_Witness ==
    /\ op = "Read" /\ key \in DOMAIN env /\ env[key] = ""
    /\ (key \o "_FILE") \in DOMAIN env
    /\ env[key \o "_FILE"] \in DOMAIN fs
    /\ fs[env[key \o "_FILE"]] # ""
    /\ found /\ raw = ""

\* C2: when K is not set, Read(K) returns (C, true) if and only if K_FILE is
\* set and the file at its path is readable with contents C, untrimmed; in
\* every other case (K_FILE unset, the empty path, no such file) it returns
\* ("", false).
C2_FileFallback ==
    (op = "Read" /\ key \notin DOMAIN env) =>
        LET fk == key \o "_FILE" IN
        IF fk \in DOMAIN env /\ env[fk] # "" /\ env[fk] \in DOMAIN fs
        THEN found /\ raw = fs[env[fk]]
        ELSE ~found /\ raw = ""

\* contents with surrounding white space come back verbatim
C2_Witness ==
    /\ op = "Read" /\ key \notin DOMAIN env
    /\ found /\ raw = " X "

----------------------------------------------------------------------------
(* Claims about ReadStruct, checked under Spec *)

\* C3: ReadStruct rejects an invalid target before touching any field or
\* reading any variable: nil, a non-pointer or a nil pointer fails with
\* ErrNotPtr, a non-nil pointer to a non-struct with ErrNotStructPtr; the
\* target is unchanged.
C3_InvalidTarget ==
    op = "ReadStruct" =>
        /\ (arg.Kind # "ptr" \/ arg.IsNil) =>
              err = ErrNotPtr /\ trace = <<>> /\ obj = pre_obj /\ heap = pre_heap
        /\ (arg.Kind = "ptr" /\ ~arg.IsNil /\ arg.Elem # "struct") =>
              err = ErrNotStructPtr /\ trace = <<>> /\ obj = pre_obj
              /\ heap = pre_heap

\* a nil pointer to a struct whose first variable is set
C3_Witness ==
    /\ op = "ReadStruct" /\ arg = ArgNilPtr
    /\ Len(rt) > 0 /\ "A" \in DOMAIN env
    /\ err = ErrNotPtr

\* C4: for a settable field bound with NAME,required: if NAME has no value
\* (NAME unset and NAME_FILE unset or unreadable) ReadStruct fails with an
\* ErrFieldRequired that names the field and NAME; if NAME has a value, even
\* the empty one, the field does not fail with ErrFieldRequired.
C4_Required ==
    Returned =>
        \A i \in 1..Len(rt) : \A n \in Names :
            (Exported(i) /\ Required(i, n) /\ Reached(i)) =>
                IF HasValue(n)
                THEN ~(FailedAt(i) /\ Is(err, ErrFieldRequired))
                ELSE /\ FailedAt(i)
                     /\ Is(err, ErrFieldRequired)
                     /\ err.msg = "field " \o Quote(rt[i].Name)
                                    \o ": field is required (" \o n \o ")"

\* a required field whose NAME_FILE names a file that cannot be read
C4_Witness ==
    /\ Returned
    /\ \E i \in 1..Len(rt) : \E n \in Names :
          /\ Exported(i) /\ Required(i, n)
          /\ n \notin DOMAIN env
          /\ (n \o "_FILE") \in DOMAIN env
          /\ env[n \o "_FILE"] \notin DOMAIN fs
          /\ FailedAt(i) /\ Is(err, ErrFieldRequired)

\* C5: a bound, non-required field of any shape whose variable has no value
\* keeps exactly its pre-call value and the loop goes on to the next field: no
\* zeroing, a populated slice keeps its elements, a nil slice and a nil
\* pointer stay nil and no cell is allocated.
C5_AbsentOptional ==
    Returned =>
        \A i \in 1..Len(rt) : \A n \in Names :
            (Exported(i) /\ Optional(i, n) /\ Reached(i) /\ ~HasValue(n)) =>
                /\ Passed(i)
                /\ obj[i] = pre_obj[i]
                /\ View(obj[i], heap) = View(pre_obj[i], pre_heap)
                /\ \A a \in DOMAIN heap \ DOMAIN pre_heap :
                      \E j \in 1..Len(rt) : j # i /\ obj[j] = PtrV(a)

\* a populated slice field without a value, followed by a field that is
\* assigned
C5_Witness ==
    /\ Returned
    /\ \E i \in 1..Len(rt) - 1 : \E n \in Names :
          /\ Exported(i) /\ Optional(i, n) /\ ~HasValue(n) /\ Passed(i)
          /\ rt[i].Type.Kind = "slice" /\ Len(obj[i].e) = 6
          /\ Passed(i + 1) /\ obj[i + 1] # pre_obj[i + 1]


\* the number of commas of a string
RECURSIVE Commas(_)
Commas(r) ==
    IF r = "" THEN 0
    ELSE (IF Char(r, 1) = "," THEN 1 ELSE 0) + Commas(SubSeq(r, 2, Len(r)))

\* strings.Join(es, ",")
RECURSIVE Join(_)
Join(es) ==
    IF Len(es) = 0 THEN ""
    ELSE IF Len(es) = 1 THEN es[1]
    ELSE es[1] \o "," \o Join(Tail(es))

\* C6: when the variable of a []string field has the raw value R, after
\* ReadStruct the field is exactly the comma-split of R: commas + 1 elements
\* ([""] for the empty string), none holding a comma, joining back to R,
\* whatever the field held before.
C6_SliceReplaced ==
    Returned =>
        \A i \in 1..Len(rt) : \A n \in Names :
            (/\ Exported(i) /\ Bound(i, n) /\ Reached(i)
             /\ rt[i].Type = SliceOf(TString) /\ HasValue(n)) =>
                /\ Passed(i)
                /\ ~obj[i].nil
                /\ Len(obj[i].e) = Commas(ValueOf(n)) + 1
                /\ \A x \in 1..Len(obj[i].e) : Commas(obj[i].e[x]) = 0
                /\ Join(obj[i].e) = ValueOf(n)

\* a field of six elements replaced by the two elements of "a,"
C6_Witness ==
    /\ Returned
    /\ \E i \in 1..Len(rt) : \E n \in Names :
          /\ Exported(i) /\ Bound(i, n) /\ rt[i].Type = SliceOf(TString)
          /\ HasValue(n) /\ ValueOf(n) = "a,"
          /\ Len(pre_obj[i].e) = 6
          /\ obj[i] = SliceV(<<"a", "">>)

\* the text of a tag before its first comma
NameOfTag(tag) ==
    LET c == IndexFrom(tag, ",", 1)
    IN  IF c = 0 THEN tag ELSE SubSeq(tag, 1, c - 1)

\* the position of the field whose tag names the variable a lookup key
\* k (NAME or NAME_FILE) belongs to
PosOf(k) ==
    CHOOSE p \in 1..Len(rt) :
        /\ rt[p].Tag # ""
        /\ k \in {NameOfTag(rt[p].Tag), NameOfTag(rt[p].Tag) \o "_FILE"}

\* C7: fields are processed in declaration order and ReadStruct halts on the
\* first failing field without rollback: the error is that field's, every
\* earlier field holds what its own processing gave it (the decoded value if
\* its variable has one, its pre-call value otherwise), the failing field and
\* the later ones hold their pre-call values, and the variables of the later
\* fields are never looked up.
C7_HaltOnFirstFailure ==
    (Returned /\ ~err.nil) =>
        /\ at \in 1..Len(rt)
        /\ StartsWith(err.msg, "field " \o Quote(rt[at].Name) \o ": ")
        /\ \A j \in 1..(at - 1) :
              IF \E n \in Names : Bound(j, n) /\ HasValue(n)
              THEN \A n \in Names : Bound(j, n) =>
                      View(obj[j], heap)
                        = Decode(TypeName(rt[j].Type), ValueOf(n)).val
              ELSE obj[j] = pre_obj[j]
                   /\ View(obj[j], heap) = View(pre_obj[j], pre_heap)
        /\ \A j \in at..Len(rt) :
              obj[j] = pre_obj[j]
              /\ View(obj[j], heap) = View(pre_obj[j], pre_heap)
        /\ \A j \in (at + 1)..Len(rt) : Touches(VarNames[j]) = {}
        /\ \A x, y \in 1..Len(trace) :
              (x < y /\ trace[x][1] = "LookupEnv" /\ trace[y][1] = "LookupEnv")
                  => PosOf(trace[x][2]) <= PosOf(trace[y][2])

\* the second of three fields fails after the first was assigned, and the
\* variable of the third is set
C7_Witness ==
    /\ Returned /\ Len(rt) = 3 /\ FailedAt(2)
    /\ obj[1] # pre_obj[1]
    /\ Bound(3, "C") /\ HasValue("C")
    /\ obj[3] = pre_obj[3]

\* C8: the settability check comes first for every field: a field that cannot
\* be set makes ReadStruct fail at once with ErrFieldUnexported naming it,
\* with or without an env tag and whatever the environment holds; its
\* variable is not looked up and no later field is processed.
C8_UnexportedFirst ==
    Returned =>
        \A i \in 1..Len(rt) :
            (~Exported(i) /\ Reached(i)) =>
                /\ FailedAt(i)
                /\ Is(err, ErrFieldUnexported)
                /\ err.msg = "field " \o Quote(rt[i].Name)
                               \o ": field is unexported"
                /\ \A j \in i..Len(rt) :
                      Touches(VarNames[j]) = {} /\ obj[j] = pre_obj[j]

\* an unexported field without tag stops the loop, its variable being set
C8_Witness ==
    /\ Returned
    /\ \E i \in 1..Len(rt) :
          /\ ~Exported(i) /\ rt[i].Tag = "" /\ FailedAt(i)
          /\ HasValue(VarNames[i])
          /\ Is(err, ErrFieldUnexported)

\* C9: for a pointer field whose variable has a value that decodes to V: a
\* nil field gets a newly allocated cell holding V; a non-nil field keeps its
\* pointer and V is written into the cell it points to. Either way the field
\* is non-nil and points to V.
C9_Pointer ==
    Returned =>
        \A i \in 1..Len(rt) : \A n \in Names :
            (/\ Exported(i) /\ Bound(i, n) /\ rt[i].Type.Kind = "ptr"
             /\ HasValue(n) /\ Passed(i)) =>
                /\ obj[i].a # 0
                /\ obj[i].a \in DOMAIN heap
                /\ heap[obj[i].a] = Decode(TypeName(rt[i].Type), ValueOf(n)).val
                /\ pre_obj[i].a = 0 => obj[i].a \notin DOMAIN pre_heap
                /\ pre_obj[i].a # 0 => obj[i] = pre_obj[i]

\* a non-nil pointer field kept, the cell behind it rewritten
C9_Witness ==
    /\ Returned
    /\ \E i \in 1..Len(rt) : \E n \in Names :
          /\ Exported(i) /\ Bound(i, n) /\ rt[i].Type.Kind = "ptr"
          /\ HasValue(n) /\ Passed(i)
          /\ pre_obj[i].a # 0 /\ obj[i] = pre_obj[i]
          /\ heap[obj[i].a] # pre_heap[obj[i].a]

\* the raw strings decoders["slog.Level"] is meant to accept
ValidLevel(r) == TrimSpace(ToLower(r)) \in {"debug", "info", "warn", "error"}

\* C10: when the variable of a slog.Level field has a raw value R that is not
\* debug, info, warn or error (case folded, surrounding white space trimmed),
\* ReadStruct fails with an ErrFieldDecode wrapping the decoder's error, which
\* reports R exactly; the field keeps its pre-call value and the decoder's
\* info fallback is not assigned.
C10_DecodeError ==
    Returned =>
        \A i \in 1..Len(rt) : \A n \in Names :
            (/\ Exported(i) /\ Bound(i, n) /\ Reached(i)
             /\ rt[i].Type \in {TLevel, PtrTo(TLevel)}
             /\ HasValue(n) /\ ~ValidLevel(ValueOf(n))) =>
                /\ FailedAt(i)
                /\ Is(err, ErrFieldDecode)
                /\ Is(err, Err("invalid slog.Level: " \o Quote(ValueOf(n))))
                /\ err.msg = "field " \o Quote(rt[i].Name)
                               \o ": field decode: invalid slog.Level: "
                               \o Quote(ValueOf(n))
                /\ obj[i] = pre_obj[i]
                /\ View(obj[i], heap) = View(pre_obj[i], pre_heap)

\* a field holding the debug level is kept when its variable holds " X "
C10_Witness ==
    /\ Returned
    /\ \E i \in 1..Len(rt) : \E n \in Names :
          /\ Exported(i) /\ Bound(i, n) /\ rt[i].Type = TLevel
          /\ HasValue(n) /\ ValueOf(n) = " X "
          /\ FailedAt(i) /\ Is(err, ErrFieldDecode)
          /\ obj[i] = LevelV(LevelDebug)

\* the decoder key the shape of a field type calls for
KeyOfShape(t) ==
    CASE t.Kind = "slice" -> "[]" \o t.Elem.Str
      [] t.Kind = "ptr"   -> t.Elem.Str
      [] OTHER            -> t.Str

\* C11: for a field whose variable resolved, the decoder key is the type's
\* name for a scalar, the element type's name for a pointer field and "[]"
\* followed by the element type's name for a slice field. A key that is not
\* registered makes ReadStruct fail with ErrFieldUnsupported naming that key,
\* the field unchanged; a registered key never gives ErrFieldUnsupported, and
\* a field that is assigned holds what the decoder of that key returns.
C11_DecoderKey ==
    Returned =>
        \A i \in 1..Len(rt) : \A n \in Names :
            (Exported(i) /\ Bound(i, n) /\ Reached(i) /\ HasValue(n)) =>
                LET k == KeyOfShape(rt[i].Type)
                IN  IF k \notin DecoderNames
                    THEN /\ FailedAt(i)
                         /\ Is(err, ErrFieldUnsupported)
                         /\ err.msg = "field " \o Quote(rt[i].Name)
                                        \o ": unsupported field type: " \o Quote(k)
                         /\ obj[i] = pre_obj[i]
                         /\ View(obj[i], heap) = View(pre_obj[i], pre_heap)
                    ELSE /\ FailedAt(i) => ~Is(err, ErrFieldUnsupported)
                         /\ Passed(i) => View(obj[i], heap) = Decode(k, ValueOf(n)).val

\* a populated []any field whose variable has a value fails naming
\* "[]interface {}"
C11_Witness ==
    /\ Returned
    /\ \E i \in 1..Len(rt) : \E n \in Names :
          /\ Exported(i) /\ Bound(i, n) /\ HasValue(n)
          /\ rt[i].Type = SliceOf(TAny)
          /\ pre_obj[i] # Zero(rt[i].Type)
          /\ FailedAt(i)
          /\ err.msg = "field " \o Quote(rt[i].Name)
                         \o ": unsupported field type: \"[]interface {}\""

\* a field of a defined slice type is decoded under the key of its element
C11_WitnessNamed ==
    /\ Returned
    /\ \E i \in 1..Len(rt) : \E n \in Names :
          /\ Exported(i) /\ Bound(i, n) /\ HasValue(n)
          /\ rt[i].Type = Named("env_test.Tags", SliceOf(TString))
          /\ Passed(i) /\ obj[i] = SliceV(<<"a", "">>)

\* the text of a tag after its first comma is "required", or starts with
\* "required,"
RequiredTag(tag) ==
    LET c    == IndexFrom(tag, ",", 1)
        rest == SubSeq(tag, c + 1, Len(tag))
    IN  /\ c # 0
        /\ \/ rest = "required"
           \/ (Len(rest) >= 9 /\ SubSeq(rest, 1, 9) = "required,")

\* C12: ReadStruct never returns ErrFieldNoEnvTag: a field with an empty tag
\* is skipped unchanged. For a non-empty tag the variable looked up is the
\* text before the first comma, and the field is required exactly when the
\* second segment is "required" as written: with no value for the variable, a
\* required field fails with ErrFieldRequired naming the variable, and any
\* other tag leaves the field unchanged with no error.
C12_TagParsing ==
    Returned =>
        /\ ~Is(err, ErrFieldNoEnvTag)
        /\ \A x \in 1..Len(trace) :
              trace[x][1] = "LookupEnv" =>
                  \E j \in 1..Len(rt) :
                      /\ Reached(j) /\ rt[j].Tag # ""
                      /\ trace[x][2] \in {NameOfTag(rt[j].Tag),
                                          NameOfTag(rt[j].Tag) \o "_FILE"}
        /\ \A i \in 1..Len(rt) :
              (Exported(i) /\ Reached(i)) =>
                  LET tag == rt[i].Tag
                      n   == NameOfTag(tag)
                      unchanged == /\ Passed(i)
                                   /\ obj[i] = pre_obj[i]
                                   /\ View(obj[i], heap) = View(pre_obj[i], pre_heap)
                  IN  IF tag = ""
                      THEN unchanged
                      ELSE /\ \E x \in 1..Len(trace) : trace[x] = <<"LookupEnv", n>>
                           /\ (HasValue(n) /\ rt[i].Type \in {TString, PtrTo(TString)}) =>
                                  /\ Passed(i)
                                  /\ View(obj[i], heap) = StrV(ValueOf(n))
                           /\ ~HasValue(n) =>
                                  IF RequiredTag(tag)
                                  THEN /\ FailedAt(i)
                                       /\ Is(err, ErrFieldRequired)
                                       /\ err.msg = "field " \o Quote(rt[i].Name)
                                                      \o ": field is required ("
                                                      \o n \o ")"
                                  ELSE unchanged

\* a populated field tagged "A,x,required" is kept when A has no value
C12_Witness ==
    /\ Returned
    /\ Len(rt) = 1 /\ rt[1].Tag = "A,x,required" /\ rt[1].Type = TString
    /\ ~HasValue("A")
    /\ err.nil /\ at = 2 /\ obj[1] = StrV("old")

\* a field tagged "A,required,x" fails when A has no value
C12_WitnessThird ==
    /\ Returned
    /\ Len(rt) = 1 /\ rt[1].Tag = "A,required,x"
    /\ ~HasValue("A")
    /\ FailedAt(1) /\ Is(err, ErrFieldRequired)

\* a field without tag is skipped and the next field is processed
C12_WitnessNoTag ==
    /\ Returned
    /\ \E i \in 1..Len(rt) :
          /\ Exported(i) /\ rt[i].Tag = "" /\ Passed(i)
          /\ i < Len(rt) /\ obj[i + 1] # pre_obj[i + 1]

\* C13: a field with a non-empty tag whose type has no registered decoder
\* and whose variable has no value does not make ReadStruct return
\* ErrFieldUnsupported: an optional field is skipped unchanged and the loop
\* goes on, a required field fails with ErrFieldRequired. ReadStruct returns
\* ErrFieldUnsupported only for a field whose variable has a value.
C13_UnsupportedAfterResolve ==
    Returned =>
        /\ \A i \in 1..Len(rt) :
              (/\ Exported(i) /\ Reached(i) /\ rt[i].Tag # ""
               /\ KeyOfShape(rt[i].Type) \notin DecoderNames
               /\ ~HasValue(NameOfTag(rt[i].Tag))) =>
                  IF RequiredTag(rt[i].Tag)
                  THEN /\ FailedAt(i)
                       /\ Is(err, ErrFieldRequired)
                       /\ ~Is(err, ErrFieldUnsupported)
                  ELSE /\ Passed(i)
                       /\ obj[i] = pre_obj[i]
                       /\ View(obj[i], heap) = View(pre_obj[i], pre_heap)
        /\ Is(err, ErrFieldUnsupported) =>
              /\ at \in 1..Len(rt)
              /\ rt[at].Tag # ""
              /\ HasValue(NameOfTag(rt[at].Tag))

\* an optional []any field whose variable has no value is passed over and
\* the field after it is assigned
C13_Witness ==
    /\ Returned
    /\ \E i \in 1..Len(rt) :
          /\ Exported(i) /\ rt[i].Type = SliceOf(TAny)
          /\ rt[i].Tag # "" /\ ~RequiredTag(rt[i].Tag)
          /\ ~HasValue(NameOfTag(rt[i].Tag))
          /\ Passed(i) /\ obj[i] = pre_obj[i]
          /\ i < Len(rt) /\ obj[i + 1] # pre_obj[i + 1]

\* a required *any field whose variable has no value fails with
\* ErrFieldRequired
C13_WitnessRequired ==
    /\ Returned
    /\ \E i \in 1..Len(rt) :
          /\ Exported(i) /\ rt[i].Type = PtrTo(TAny)
          /\ RequiredTag(rt[i].Tag)
          /\ ~HasValue(NameOfTag(rt[i].Tag))
          /\ FailedAt(i) /\ Is(err, ErrFieldRequired)

====
